---- MODULE Spec2Model ----
(***************************************************************************)
(* Model of the donation-notice generator: the proportional allocator      *)
(* (scr/allocation.py), the text/amount normalizer (scr/text_utils.py)     *)
(* the header detector and the ledger reader (scr/excel_reader.py), and    *)
(* the run that ties them together (scr/orchestrator.py, main.py).         *)
(*                                                                         *)
(* Decimal amounts are integers counted in mills (1 mill = 0.001), so a    *)
(* value with three fractional digits is exact; a value quantized to two   *)
(* fractional digits is a multiple of 10 mills.  An optional value         *)
(* (Python None) is the empty tuple, a present value v is <<v>>.           *)
(* Characters are Unicode code points.                                     *)
(***************************************************************************)
EXTENDS Integers, Sequences, FiniteSets, TLC

VARIABLES
    \* allocate_proportional
    total_amount, shares, allocated, running_sum, idx, alloc_pc,
    \* quantize_2 on its own
    q_num, q_den, q_out, q_pc,
    \* canonicalize_header applied twice
    c_in, c_once, c_twice, c_pc,
    \* _detect_header_and_read
    sheet, required, header_row, mapping, best_row, best_score, h_pc,
    \* to_decimal
    d_in, d_out, d_pc,
    \* orchestrator.run
    overwrite, template_exists, charity_left, holding_left, records, by_product,
    product_to_amount, product_to_doc, product_to_short,
    out_doc_dir, out_xlsx_dir, stats, run_pc, outcome,
    \* read_charity_records and the formatting of what it returns
    df, row_i, read_records, formatted, read_pc

vars == <<total_amount, shares, allocated, running_sum, idx, alloc_pc,
          q_num, q_den, q_out, q_pc,
          c_in, c_once, c_twice, c_pc,
          sheet, required, header_row, mapping, best_row, best_score, h_pc,
          d_in, d_out, d_pc,
          overwrite, template_exists, charity_left, holding_left, records,
          by_product, product_to_amount, product_to_doc, product_to_short,
          out_doc_dir, out_xlsx_dir, stats, run_pc, outcome,
          df, row_i, read_records, formatted, read_pc>>

alloc_vars == <<total_amount, shares, allocated, running_sum, idx, alloc_pc>>
quant_vars == <<q_num, q_den, q_out, q_pc>>

canon_vars == <<c_in, c_once, c_twice, c_pc>>
header_vars == <<sheet, required, header_row, mapping, best_row, best_score, h_pc>>
decimal_vars == <<d_in, d_out, d_pc>>
run_vars == <<overwrite, template_exists, charity_left, holding_left, records,
              by_product, product_to_amount, product_to_doc, product_to_short,
              out_doc_dir, out_xlsx_dir, stats, run_pc, outcome>>

\* what each component leaves alone
read_vars == <<df, row_i, read_records, formatted, read_pc>>

not_alloc == <<quant_vars, canon_vars, header_vars, decimal_vars, run_vars, read_vars>>
not_quant == <<alloc_vars, canon_vars, header_vars, decimal_vars, run_vars, read_vars>>
not_canon == <<alloc_vars, quant_vars, header_vars, decimal_vars, run_vars, read_vars>>
not_header == <<alloc_vars, quant_vars, canon_vars, decimal_vars, run_vars, read_vars>>
not_decimal == <<alloc_vars, quant_vars, canon_vars, header_vars, run_vars, read_vars>>
not_run == <<alloc_vars, quant_vars, canon_vars, header_vars, decimal_vars, read_vars>>
not_read == <<alloc_vars, quant_vars, canon_vars, header_vars, decimal_vars, run_vars>>

----------------------------------------------------------------------------
(* Bounds *)

\* largest |total| drawn, in mills (0.020)
MaxTotal == 20
\* longest share list drawn
MaxShares == 3
\* largest |numerator| (mills) and denominator drawn for quantize_2
MaxQNum == 40
MaxQDen == 3
\* longest header label drawn for canonicalize_header
MaxLabelLen == 3
\* most rows in a sheet drawn for _detect_header_and_read
MaxRows == 7
\* longest text and largest |integer| drawn for to_decimal
MaxTextLen == 3
MaxInt == 12
\* most ledger files, and most holding files, found by one run
MaxFiles == 2
\* most records returned from one file
MaxRecords == 2
\* most data rows under the header of a ledger sheet
MaxDataRows == 2

----------------------------------------------------------------------------
(* Helpers *)

None == <<>>
Some(v) == <<v>>
IsNone(o) == o = <<>>

Abs(x) == IF x < 0 THEN -x ELSE x
Sign(x) == IF x < 0 THEN -1 ELSE IF x > 0 THEN 1 ELSE 0

RECURSIVE SumSeq(_)
SumSeq(s) == IF s = <<>> THEN 0 ELSE Head(s) + SumSeq(Tail(s))

\* `s or Decimal("0")`: None and zero both give zero
OrZero(o) == IF IsNone(o) THEN 0 ELSE o[1]

----------------------------------------------------------------------------
(* text_utils.quantize_2 *)

\* ROUND_HALF_EVEN in place of ROUND_HALF_UP
quantize_2_half_even(n, d) ==
    LET an == Abs(n)
        ad == Abs(d)
        fl == an \div (10 * ad)
        r2 == 2 * (an - fl * 10 * ad)
        up == \/ r2 > 10 * ad
              \/ r2 = 10 * ad /\ fl % 2 = 1
    IN  Sign(n) * Sign(d) * (IF up THEN fl + 1 ELSE fl) * 10

\* value.quantize(Decimal("0.00"), rounding=ROUND_HALF_UP) of the value
\* n/d mills: the magnitude is rounded to whole cents, a remainder of half
\* a cent or more rounds the magnitude up; the result is in mills.
quantize_2(n, d) ==
    LET an == Abs(n)
        ad == Abs(d)
        fl == an \div (10 * ad)
        r2 == 2 * (an - fl * 10 * ad)
    IN  Sign(n) * Sign(d) * (IF r2 >= 10 * ad THEN fl + 1 ELSE fl) * 10

----------------------------------------------------------------------------
(* allocation.allocate_proportional *)

\* the share values drawn: absent, zero, positive and negative weights
ShareVals == {None, Some(0), Some(1), Some(2), Some(5), Some(-1)}

RECURSIVE SeqsUpTo(_, _)
SeqsUpTo(S, n) ==
    IF n = 0 THEN {<<>>}
    ELSE LET shorter == SeqsUpTo(S, n - 1)
         IN  shorter \cup {Append(s, x) : s \in shorter, x \in S}

\* totals drawn: None, every value of up to three fractional digits within
\* the bound, and 100.00
Totals == {None} \cup {Some(t) : t \in (-MaxTotal..MaxTotal) \cup {100000}}

AllocInit ==
    /\ total_amount \in Totals
    /\ shares \in SeqsUpTo(ShareVals, MaxShares)
    /\ allocated = <<>>
    /\ running_sum = 0
    /\ idx = 0
    /\ alloc_pc = "entry"

AllocIdle ==
    /\ total_amount = None
    /\ shares = <<>>
    /\ allocated = <<>>
    /\ running_sum = 0
    /\ idx = 0
    /\ alloc_pc = "idle"

\* the total the loop works with (lines 15-16)
TotalOrZero == OrZero(total_amount)

\* sum((s or Decimal("0")) for s in shares)
total_shares == SumSeq([i \in 1..Len(shares) |-> OrZero(shares[i])])

\* lines 18-19: an empty share list returns []
AllocEmpty ==
    /\ alloc_pc = "entry"
    /\ shares = <<>>
    /\ allocated' = <<>>
    /\ alloc_pc' = "done"
    /\ UNCHANGED <<total_amount, shares, running_sum, idx, not_alloc>>

\* a single 0.00 in place of one per share
AllocZeroSumOne ==
    /\ alloc_pc = "entry"
    /\ shares # <<>>
    /\ total_shares = 0
    /\ allocated' = <<0>>
    /\ alloc_pc' = "done"
    /\ UNCHANGED <<total_amount, shares, running_sum, idx, not_alloc>>

\* lines 21-23: shares summing to zero return a list of 0.00
AllocZeroSum ==
    /\ alloc_pc = "entry"
    /\ shares # <<>>
    /\ total_shares = 0
    /\ allocated' = [i \in 1..Len(shares) |-> 0]
    /\ alloc_pc' = "done"
    /\ UNCHANGED <<total_amount, shares, running_sum, idx, not_alloc>>

\* lines 25-27: enter the loop
AllocStart ==
    /\ alloc_pc = "entry"
    /\ shares # <<>>
    /\ total_shares # 0
    /\ allocated' = <<>>
    /\ running_sum' = 0
    /\ idx' = 0
    /\ alloc_pc' = "loop"
    /\ UNCHANGED <<total_amount, shares, not_alloc>>

\* the part is appended but running_sum is not advanced
AllocPartNoSum ==
    /\ alloc_pc = "loop"
    /\ idx < Len(shares) - 1
    /\ allocated' = Append(allocated,
            quantize_2(TotalOrZero * OrZero(shares[idx + 1]), total_shares))
    /\ idx' = idx + 1
    /\ UNCHANGED <<total_amount, shares, running_sum, alloc_pc, not_alloc>>

\* lines 32-36: an element that is not the last gets its quantized part
AllocPart ==
    /\ alloc_pc = "loop"
    /\ idx < Len(shares) - 1
    /\ LET q == quantize_2(TotalOrZero * OrZero(shares[idx + 1]), total_shares)
       IN  /\ allocated' = Append(allocated, q)
           /\ running_sum' = running_sum + q
    /\ idx' = idx + 1
    /\ UNCHANGED <<total_amount, shares, alloc_pc, not_alloc>>

\* the remainder is appended without being quantized
AllocLastRaw ==
    /\ alloc_pc = "loop"
    /\ idx = Len(shares) - 1
    /\ allocated' = Append(allocated, TotalOrZero - running_sum)
    /\ idx' = idx + 1
    /\ alloc_pc' = "done"
    /\ UNCHANGED <<total_amount, shares, running_sum, not_alloc>>

\* lines 28-31 and 37: the last element gets the remainder, then return
AllocLast ==
    /\ alloc_pc = "loop"
    /\ idx = Len(shares) - 1
    /\ allocated' = Append(allocated, quantize_2(TotalOrZero - running_sum, 1))
    /\ idx' = idx + 1
    /\ alloc_pc' = "done"
    /\ UNCHANGED <<total_amount, shares, running_sum, not_alloc>>

----------------------------------------------------------------------------
(* quantize_2 applied to drawn values *)

QuantInit ==
    /\ q_num \in -MaxQNum..MaxQNum
    /\ q_den \in 1..MaxQDen
    /\ q_out = None
    /\ q_pc = "entry"

QuantIdle ==
    /\ q_num = 0
    /\ q_den = 1
    /\ q_out = None
    /\ q_pc = "idle"

Quantize ==
    /\ q_pc = "entry"
    /\ q_out' = Some(quantize_2(q_num, q_den))
    /\ q_pc' = "done"
    /\ UNCHANGED <<q_num, q_den, not_quant>>

----------------------------------------------------------------------------
(* text_utils: to_half_width, normalize_whitespace, canonicalize_header *)

\* the characters matched by \s in a str pattern, and removed by str.strip()
IsSpace(c) ==
    \/ c \in 9..13
    \/ c \in 28..32
    \/ c \in {133, 160, 5760, 8232, 8233, 8239, 8287, 12288}
    \/ c \in 8192..8202

\* lines 16-27: U+3000 becomes a space, U+FF01..U+FF5E move down by 0xFEE0
to_half_width(text) ==
    [i \in 1..Len(text) |->
        IF text[i] = 12288 THEN 32
        ELSE IF 65281 <= text[i] /\ text[i] <= 65374 THEN text[i] - 65248
        ELSE text[i]]

\* re.sub(r"\s+", " ", text): every run of whitespace becomes one space
RECURSIVE CollapseSpace(_, _)
CollapseSpace(text, inRun) ==
    IF text = <<>> THEN <<>>
    ELSE IF IsSpace(Head(text))
         THEN (IF inRun THEN <<>> ELSE <<32>>) \o CollapseSpace(Tail(text), TRUE)
         ELSE <<Head(text)>> \o CollapseSpace(Tail(text), FALSE)

\* str.strip(): leading and trailing whitespace removed
RECURSIVE LStrip(_)
LStrip(text) ==
    IF text # <<>> /\ IsSpace(Head(text)) THEN LStrip(Tail(text)) ELSE text

RECURSIVE RStrip(_)
RStrip(text) ==
    IF text # <<>> /\ IsSpace(text[Len(text)])
    THEN RStrip(SubSeq(text, 1, Len(text) - 1))
    ELSE text

Strip(text) == RStrip(LStrip(text))

\* lines 12-13
normalize_whitespace(text) == Strip(CollapseSpace(text, FALSE))

\* str.replace(ch, ""), and str.replace(old, new) for single characters
RECURSIVE Remove(_, _)
Remove(text, ch) ==
    IF text = <<>> THEN <<>>
    ELSE (IF Head(text) = ch THEN <<>> ELSE <<Head(text)>>) \o Remove(Tail(text), ch)

ReplaceChar(text, old, new) ==
    [i \in 1..Len(text) |-> IF text[i] = old THEN new ELSE text[i]]

\* str.lower() on the Latin letters, ASCII and full-width
Lower(text) ==
    [i \in 1..Len(text) |->
        IF (65 <= text[i] /\ text[i] <= 90) \/ (65313 <= text[i] /\ text[i] <= 65338)
        THEN text[i] + 32
        ELSE text[i]]

\* the last replace(" ", "") left out
canonicalize_header_keep_spaces(name) ==
    LET s1 == to_half_width(name)
        s2 == ReplaceChar(s1, 10, 32)
        s3 == normalize_whitespace(s2)
        s4 == Lower(s3)
    IN  Remove(Remove(Remove(Remove(s4, 40), 41), 65288), 65289)

\* lines 30-40, for a str argument
canonicalize_header(name) ==
    LET s1 == to_half_width(name)
        s2 == ReplaceChar(s1, 10, 32)
        s3 == normalize_whitespace(s2)
        s4 == Lower(s3)
        s5 == Remove(Remove(Remove(Remove(s4, 40), 41), 65288), 65289)
    IN  Remove(s5, 32)

\* the characters labels are drawn from: A a ( ) space tab newline,
\* U+3000, full-width ( ) A a, and a CJK character
CanonChars == {65, 97, 40, 41, 32, 9, 10, 12288, 65288, 65289, 65313, 65345, 37329}

CanonInit ==
    /\ c_in \in SeqsUpTo(CanonChars, MaxLabelLen)
    /\ c_once = <<>>
    /\ c_twice = <<>>
    /\ c_pc = "entry"

CanonIdle ==
    /\ c_in = <<>>
    /\ c_once = <<>>
    /\ c_twice = <<>>
    /\ c_pc = "idle"

CanonOnce ==
    /\ c_pc = "entry"
    /\ c_once' = canonicalize_header(c_in)
    /\ c_pc' = "once"
    /\ UNCHANGED <<c_in, c_twice, not_canon>>

CanonTwice ==
    /\ c_pc = "once"
    /\ c_twice' = canonicalize_header(c_once)
    /\ c_pc' = "twice"
    /\ UNCHANGED <<c_in, c_once, not_canon>>

----------------------------------------------------------------------------
(* excel_reader: the schemas, _build_column_mapping, _detect_header_and_read *)

\* lines 13-17
CHARITY_REQUIRED ==
    [product_name |-> {
        <<20135, 21697, 21517, 31216>>,  \* U+4EA7 U+54C1 U+540D U+79F0
        <<20135, 21697>>,
        <<20135, 21697, 20840, 31216>>
     },
     counterparty |-> {
        <<23545, 25163, 26041>>,
        <<23545, 25163, 26041, 21517, 31216>>
     },
     amount |-> {
        <<21457, 29983, 37329, 39069>>,
        <<37329, 39069>>,                \* U+91D1 U+989D
        <<25424, 36192, 37329, 39069>>
     }]

\* lines 19-23
HOLDING_REQUIRED ==
    [product_name |-> {
        <<20135, 21697, 21517, 31216>>,
        <<20135, 21697>>,
        <<20135, 21697, 20840, 31216>>
     },
     customer_name |-> {
        <<23458, 25143, 21517, 31216>>,
        <<23458, 25143>>,
        <<25345, 26377, 20154, 21517, 31216>>,
        <<25237, 36164, 32773, 21517, 31216>>
     },
     share |-> {
        <<24403, 21069, 20221, 39069>>,
        <<20221, 39069>>,
        <<25345, 26377, 20221, 39069>>
     }]

\* rows scanned for a header (line 75)
ScanLimit == 6

Min(a, b) == IF a < b THEN a ELSE b

\* A sheet is a sequence of rows of equal width, a row a sequence of cells,
\* a cell a label; the empty label is an empty cell.
Blank == <<>>

\* pd.read_excel(header=None) ... .astype(str): an empty cell reads "nan"
AsStr(cell) == IF cell = Blank THEN <<110, 97, 110>> ELSE cell

\* pd.read_excel(header=h): the labels of the columns.  An empty header cell
\* is named "Unnamed: <position>", a repeated label gets ".<count>".
Columns(row) ==
    [i \in 1..Len(row) |->
        LET earlier == Cardinality({j \in 1..(i - 1) : row[j] = row[i]})
        IN  IF row[i] = Blank
            THEN <<85, 110, 110, 97, 109, 101, 100, 58, 32, 48 + (i - 1)>>
            ELSE IF earlier > 0 THEN row[i] \o <<46, 48 + earlier>>
            ELSE row[i]]

\* The rows sheets are made of: an empty row; a complete ledger header with
\* two product labels, a noisy amount label and an extra column; a row with
\* two ledger fields and a repeated label; a complete holdings header with
\* two share labels of one canonical form.
RowBlank == <<Blank, Blank, Blank, Blank, Blank>>
RowCharity ==
    <<<<20135, 21697, 21517, 31216>>, <<20135, 21697>>, <<23545, 25163, 26041>>,
      <<25424, 36192, 65288, 37329, 32, 39069, 65289, 10>>, <<22791, 27880>>>>
RowPartial ==
    <<<<20135, 21697>>, <<37329, 39069>>, <<37329, 39069>>, Blank, <<22791, 27880>>>>
RowHolding ==
    <<<<20135, 21697, 20840, 31216>>, <<23458, 25143>>, <<20221, 39069>>,
      <<65288, 20221, 39069, 65289>>, Blank>>
RowPool == {RowBlank, RowCharity, RowPartial, RowHolding}

\* line 40: {canonicalize_header(c): c for c in df.columns}, the keys
CanonicalKeys(cols) == {canonicalize_header(cols[i]) : i \in 1..Len(cols)}

\* line 40: a later column with the same canonical form replaces an earlier
CanonicalCol(cols, key) ==
    LET at == {i \in 1..Len(cols) : canonicalize_header(cols[i]) = key}
    IN  cols[CHOOSE i \in at : \A j \in at : j <= i]

\* lines 43-48: the columns the loop over a field's candidates can stop at;
\* a set is iterated in no fixed order, so any matching candidate may be first
Found(cols, candidates) ==
    {CanonicalCol(cols, canonicalize_header(cand)) :
        cand \in {c \in candidates : canonicalize_header(c) \in CanonicalKeys(cols)}}

\* a field without a column is skipped instead of ending the search
build_column_mapping_skip(cols, req) ==
    LET have == {f \in DOMAIN req : Found(cols, req[f]) # {}}
        all == UNION {Found(cols, req[f]) : f \in have}
    IN  {Some(m) : m \in {g \in [have -> all] : \A f \in have : g[f] \in Found(cols, req[f])}}

\* lines 38-52 (_build_column_mapping): the results the call can return,
\* None when some field has no column
build_column_mapping(cols, req) ==
    IF \E f \in DOMAIN req : Found(cols, req[f]) = {}
    THEN {None}
    ELSE LET all == UNION {Found(cols, req[f]) : f \in DOMAIN req}
         IN  {Some(m) : m \in {g \in [DOMAIN req -> all] :
                                  \A f \in DOMAIN req : g[f] \in Found(cols, req[f])}}

\* lines 76-81: the fields with a candidate among the row's cells
RowScore(row, req) ==
    LET canon == {canonicalize_header(AsStr(row[i])) : i \in 1..Len(row)}
    IN  Cardinality({f \in DOMAIN req :
                        \E c \in req[f] : canonicalize_header(c) \in canon})

\* the two schemas the readers pass (lines 68 and 90 of the callers)
Schemas == {CHARITY_REQUIRED, HOLDING_REQUIRED}

\* _build_column_mapping(_try_read_with_header(path, h), required) and the
\* score of a row, computed once for every row and schema and looked up
MappingTable ==
    {<<row, req, build_column_mapping(Columns(row), req)>> :
        row \in RowPool, req \in Schemas}
ScoreTable == {<<row, req, RowScore(row, req)>> : row \in RowPool, req \in Schemas}

\* lines 63-64 and 89-90: the mappings a read with header row h can give
ReadAndMap(raw, h, req) ==
    (CHOOSE p \in MappingTable : p[1] = raw[h + 1] /\ p[2] = req)[3]

\* lines 76-81: the score of row r of the sheet read without a header
ScoreOf(raw, r, req) ==
    (CHOOSE p \in ScoreTable : p[1] = raw[r + 1] /\ p[2] = req)[3]

\* the best row is replaced on an equal score too
RECURSIVE ScanLoopLastBest(_, _, _, _, _)
ScanLoopLastBest(raw, req, r, br, bs) ==
    IF r >= Min(ScanLimit, Len(raw)) THEN <<br, bs>>
    ELSE LET score == ScoreOf(raw, r, req)
         IN  IF score >= bs
             THEN ScanLoopLastBest(raw, req, r + 1, Some(r), score)
             ELSE ScanLoopLastBest(raw, req, r + 1, br, bs)

\* lines 75-84: the loop from row r on, with the best row and score so far
RECURSIVE ScanLoop(_, _, _, _, _)
ScanLoop(raw, req, r, br, bs) ==
    IF r >= Min(ScanLimit, Len(raw)) THEN <<br, bs>>
    ELSE LET score == ScoreOf(raw, r, req)
         IN  IF score > bs
             THEN ScanLoop(raw, req, r + 1, Some(r), score)
             ELSE ScanLoop(raw, req, r + 1, br, bs)

\* a score of zero passes
NotFoundNegative(br, bs) == br = None \/ bs < 0

\* line 86: if best_row is None or best_score <= 0
NotFound(br, bs) == br = None \/ bs <= 0

DetectInit ==
    /\ sheet \in SeqsUpTo(RowPool, MaxRows)
    /\ required \in Schemas
    /\ header_row = -1
    /\ mapping = None
    /\ best_row = None
    /\ best_score = -1
    /\ h_pc = "step1"

DetectIdle ==
    /\ sheet = <<>>
    /\ required = CHARITY_REQUIRED
    /\ header_row = -1
    /\ mapping = None
    /\ best_row = None
    /\ best_score = -1
    /\ h_pc = "idle"

\* lines 62-66: row 1 as the header gives a mapping, which is returned
TryRow1Accept ==
    /\ h_pc = "step1"
    /\ Len(sheet) >= 2
    /\ \E m \in ReadAndMap(sheet, 1, required) :
          /\ m # None
          /\ mapping' = m
    /\ header_row' = 1
    /\ h_pc' = "ok"
    /\ UNCHANGED <<sheet, required, best_row, best_score, not_header>>

\* lines 62-68: the read fails (no row 1) or the mapping is None
TryRow1Fail ==
    /\ h_pc = "step1"
    /\ IF Len(sheet) < 2 THEN TRUE
       ELSE None \in ReadAndMap(sheet, 1, required)
    /\ h_pc' = "scan"
    /\ UNCHANGED <<sheet, required, header_row, mapping, best_row, best_score, not_header>>

\* lines 71-84: read without a header and scan the first rows
Scan ==
    /\ h_pc = "scan"
    /\ LET res == ScanLoop(sheet, required, 0, None, -1)
       IN  /\ best_row' = res[1]
           /\ best_score' = res[2]
    /\ h_pc' = "scanned"
    /\ UNCHANGED <<sheet, required, header_row, mapping, not_header>>

\* lines 86-87: raise ValueError, the header row cannot be located
RaiseHeaderNotFound ==
    /\ h_pc = "scanned"
    /\ NotFound(best_row, best_score)
    /\ h_pc' = "err_header"
    /\ UNCHANGED <<sheet, required, header_row, mapping, best_row, best_score, not_header>>

\* lines 89-94: read again with the best row as header; return the mapping
RereadAccept ==
    /\ h_pc = "scanned"
    /\ ~NotFound(best_row, best_score)
    /\ \E m \in ReadAndMap(sheet, best_row[1], required) :
          /\ m # None
          /\ mapping' = m
    /\ header_row' = best_row[1]
    /\ h_pc' = "ok"
    /\ UNCHANGED <<sheet, required, best_row, best_score, not_header>>

\* lines 89-92: read again; raise ValueError, the columns do not match
RaiseColumnsIncomplete ==
    /\ h_pc = "scanned"
    /\ ~NotFound(best_row, best_score)
    /\ None \in ReadAndMap(sheet, best_row[1], required)
    /\ header_row' = best_row[1]
    /\ h_pc' = "err_columns"
    /\ UNCHANGED <<sheet, required, mapping, best_row, best_score, not_header>>

----------------------------------------------------------------------------
(* text_utils.to_decimal *)

\* A Decimal is <<kind, negative, coefficient, exponent>>: kind "fin" is
\* the number (-1)^negative * coefficient * 10^exponent, kinds "inf", "nan"
\* and "snan" are the special values (coefficient and exponent 0).
Fin(neg, coeff, exp) == <<"fin", neg, coeff, exp>>
Special(kind, neg) == <<kind, neg, 0, 0>>

IsDigit(c) == 48 <= c /\ c <= 57
AllDigits(t) == \A i \in 1..Len(t) : IsDigit(t[i])

RECURSIVE DigitsVal(_)
DigitsVal(t) ==
    IF t = <<>> THEN 0
    ELSE 10 * DigitsVal(SubSeq(t, 1, Len(t) - 1)) + (t[Len(t)] - 48)

\* position of the first character of t that is in S, 0 when there is none
FirstIdx(t, S) ==
    IF \E i \in 1..Len(t) : t[i] \in S
    THEN CHOOSE i \in 1..Len(t) : t[i] \in S /\ \A j \in 1..(i - 1) : t[j] \notin S
    ELSE 0

\* [-+]?\d+ of the exponent: <<TRUE, value>> or <<FALSE, 0>>
ParseExp(e) ==
    LET signed == e # <<>> /\ e[1] \in {43, 45}
        digits == IF signed THEN Tail(e) ELSE e
    IN  IF digits # <<>> /\ AllDigits(digits)
        THEN <<TRUE, (IF signed /\ e[1] = 45 THEN -1 ELSE 1) * DigitsVal(digits)>>
        ELSE <<FALSE, 0>>

\* decimal.Decimal(str): the string is stripped, underscores are dropped, and
\* it must be [-+]? then digits with an optional point and exponent, or
\* Inf, Infinity, NaN<digits>, sNaN<digits> in any letter case.
\* The result is <<"ok", Decimal>> or <<"InvalidOperation">>.
DecimalOf(str) ==
    LET t == Remove(Strip(str), 95)
        signed == t # <<>> /\ t[1] \in {43, 45}
        neg == signed /\ t[1] = 45
        body == IF signed THEN Tail(t) ELSE t
        low == Lower(body)
        epos == FirstIdx(body, {69, 101})
        mant == IF epos = 0 THEN body ELSE SubSeq(body, 1, epos - 1)
        ex == IF epos = 0 THEN <<TRUE, 0>> ELSE ParseExp(SubSeq(body, epos + 1, Len(body)))
        dot == FirstIdx(mant, {46})
        ip == IF dot = 0 THEN mant ELSE SubSeq(mant, 1, dot - 1)
        fp == IF dot = 0 THEN <<>> ELSE SubSeq(mant, dot + 1, Len(mant))
    IN  IF low \in {<<105, 110, 102>>, <<105, 110, 102, 105, 110, 105, 116, 121>>}
        THEN <<"ok", Special("inf", neg)>>
        ELSE IF Len(low) >= 3 /\ SubSeq(low, 1, 3) = <<110, 97, 110>>
                /\ AllDigits(SubSeq(low, 4, Len(low)))
        THEN <<"ok", Special("nan", neg)>>
        ELSE IF Len(low) >= 4 /\ SubSeq(low, 1, 4) = <<115, 110, 97, 110>>
                /\ AllDigits(SubSeq(low, 5, Len(low)))
        THEN <<"ok", Special("snan", neg)>>
        ELSE IF AllDigits(ip) /\ AllDigits(fp) /\ Len(ip) + Len(fp) > 0 /\ ex[1]
        THEN <<"ok", Fin(neg, DigitsVal(ip \o fp), ex[2] - Len(fp))>>
        ELSE <<"InvalidOperation">>

\* str(value) of an int
RECURSIVE NatStr(_)
NatStr(n) == IF n < 10 THEN <<48 + n>> ELSE NatStr(n \div 10) \o <<48 + (n % 10)>>
IntStr(n) == IF n < 0 THEN <<45>> \o NatStr(-n) ELSE NatStr(n)

\* A raw cell value is <<"null", <<>>>>, <<"Decimal", d>>, <<"int", n>>,
\* <<"float", str(value)>> or <<"text", characters>>.
\* The outcome is <<"return", optional Decimal>> or <<"raise", exception>>.

\* the tokens nan, none, null (line 71)
NullTokens == {<<110, 97, 110>>, <<110, 111, 110, 101>>, <<110, 117, 108, 108>>}

\* lines 73-79: width, commas, the currency marker, spaces, parentheses
CleanText(s) ==
    LET s1 == to_half_width(s)
        s2 == Remove(s1, 44)
        s3 == Remove(s2, 20803)
        s4 == Remove(s3, 32)
    IN  IF Len(s4) >= 1 /\ s4[1] = 40 /\ s4[Len(s4)] = 41
        THEN <<45>> \o SubSeq(s4, 2, Len(s4) - 1)
        ELSE s4

\* lines 63-83
to_decimal(value) ==
    IF value[1] = "null" THEN <<"return", None>>
    ELSE IF value[1] = "Decimal" THEN <<"return", Some(value[2])>>
    ELSE IF value[1] \in {"int", "float"}
    THEN LET d == DecimalOf(IF value[1] = "int" THEN IntStr(value[2]) ELSE value[2])
         IN  IF d[1] = "ok" THEN <<"return", Some(d[2])>> ELSE <<"raise", d[1]>>
    ELSE LET s == Strip(value[2])
         IN  IF s = <<>> \/ Lower(s) \in NullTokens THEN <<"return", None>>
             ELSE LET d == DecimalOf(CleanText(s))
                  IN  IF d[1] = "ok" THEN <<"return", Some(d[2])>> ELSE <<"return", None>>

\* characters texts are drawn from: 1 0 . , ( ) - e space and the currency
\* marker U+5143
TextChars == {49, 48, 46, 44, 40, 41, 45, 101, 32, 20803}

\* texts drawn besides: "(1,234.50)", "1,234.50" with the currency marker,
\* "nan", "NaN", "None", "NULL", " nan ", "nan" with the currency marker,
\* full-width "nan", "Infinity", "(12)" in full width, "1 234"
ExampleTexts ==
    {<<40, 49, 44, 50, 51, 52, 46, 53, 48, 41>>,
     <<49, 44, 50, 51, 52, 46, 53, 48, 20803>>,
     <<110, 97, 110>>, <<78, 97, 78>>, <<78, 111, 110, 101>>, <<78, 85, 76, 76>>,
     <<32, 110, 97, 110, 32>>,
     <<110, 97, 110, 20803>>,
     <<65358, 65345, 65358>>,
     <<73, 110, 102, 105, 110, 105, 116, 121>>,
     <<65288, 65297, 65298, 65289>>,
     <<49, 32, 50, 51, 52>>}

\* str() of the floats drawn: 1.5, -2.0, 0.1, 1e+22, 1e-07, nan, inf, -inf
FloatStrs ==
    {<<49, 46, 53>>, <<45, 50, 46, 48>>, <<48, 46, 49>>,
     <<49, 101, 43, 50, 50>>, <<49, 101, 45, 48, 55>>,
     <<110, 97, 110>>, <<105, 110, 102>>, <<45, 105, 110, 102>>}

\* the Decimal arguments drawn: 12.50, -0.005, 0
DecimalArgs == {Fin(FALSE, 1250, -2), Fin(TRUE, 5, -3), Fin(FALSE, 0, 0)}

RawValues ==
    {<<"null", <<>>>>}
    \cup {<<"Decimal", d>> : d \in DecimalArgs}
    \cup {<<"int", n>> : n \in -MaxInt..MaxInt}
    \cup {<<"float", f>> : f \in FloatStrs}
    \cup {<<"text", t>> : t \in SeqsUpTo(TextChars, MaxTextLen) \cup ExampleTexts}

DecimalInit ==
    /\ d_in \in RawValues
    /\ d_out = <<"pending">>
    /\ d_pc = "entry"

DecimalIdle ==
    /\ d_in = <<"null", <<>>>>
    /\ d_out = <<"pending">>
    /\ d_pc = "idle"

ToDecimal ==
    /\ d_pc = "entry"
    /\ d_out' = to_decimal(d_in)
    /\ d_pc' = "done"
    /\ UNCHANGED <<d_in, not_decimal>>

----------------------------------------------------------------------------
(* text_utils: sanitize_file_stem, extract_short_name *)

\* _ILLEGAL_FILE_CHARS: \ / : * ? " < > |
IllegalFileChars == {92, 47, 58, 42, 63, 34, 60, 62, 124}

\* str.strip("."): leading and trailing full stops removed
RECURSIVE StripDots(_)
StripDots(text) ==
    IF text # <<>> /\ Head(text) = 46 THEN StripDots(Tail(text))
    ELSE IF text # <<>> /\ text[Len(text)] = 46
         THEN StripDots(SubSeq(text, 1, Len(text) - 1))
         ELSE text

\* the literal "未命名"
Unnamed == <<26410, 21629, 21517>>

\* lines 43-48
sanitize_file_stem(name) ==
    LET s1 == normalize_whitespace(name)
        s2 == to_half_width(s1)
        s3 == [i \in 1..Len(s2) |-> IF s2[i] \in IllegalFileChars THEN 95 ELSE s2[i]]
        s4 == StripDots(s3)
    IN  IF s4 = <<>> THEN Unnamed ELSE s4

MinOf(S) == CHOOSE x \in S : \A y \in S : x <= y

\* lines 51-60: re.search(r"鼎(.*?)集") takes the leftmost 鼎 that is followed
\* on its line by a 集, and the text up to the first such 集
extract_short_name(product_name) ==
    IF product_name = <<>> THEN Unnamed
    ELSE LET n == Len(product_name)
             Ends(i) == {j \in (i + 1)..n :
                            /\ product_name[j] = 38598
                            /\ \A k \in (i + 1)..(j - 1) : product_name[k] # 10}
             starts == {i \in 1..n : product_name[i] = 40718 /\ Ends(i) # {}}
         IN  IF starts = {} THEN product_name
             ELSE LET i == MinOf(starts)
                      j == MinOf(Ends(i))
                      short == normalize_whitespace(SubSeq(product_name, i + 1, j - 1))
                  IN  IF short # <<>> THEN short ELSE product_name

----------------------------------------------------------------------------
(* allocation.allocate_proportional as the value it returns *)

\* lines 15-37 in closed form: running_sum is the sum of the parts already
\* appended when the last element takes the remainder
allocate_proportional(total, sh) ==
    LET t == OrZero(total)
        n == Len(sh)
        ts == SumSeq([i \in 1..n |-> OrZero(sh[i])])
        parts == [i \in 1..(n - 1) |-> quantize_2(t * OrZero(sh[i]), ts)]
    IN  IF sh = <<>> THEN <<>>
        ELSE IF ts = 0 THEN [i \in 1..n |-> 0]
        ELSE Append(parts, quantize_2(t - SumSeq(parts), 1))

----------------------------------------------------------------------------
(* io_utils.build_nonconflict_path and orchestrator.run *)

\* A directory is a function from file names to file contents; a file name
\* is the stem of the path, the directory and the extension being the same
\* for every file of one directory.  A dictionary is a function too.
Put(d, k, v) == (k :> v) @@ d

\* parent / f"{stem}_{idx}{suffix}"
Candidate(stem, k) == stem \o <<95>> \o NatStr(k)

\* io_utils lines 58-70
build_nonconflict_path(dir, stem, ow) ==
    IF ow \/ stem \notin DOMAIN dir THEN stem
    ELSE Candidate(stem, MinOf({k \in 2..(Cardinality(DOMAIN dir) + 2) :
                                    Candidate(stem, k) \notin DOMAIN dir}))

\* the literals "代捐说明_" and "票据明细_"
DocPrefix == <<20195, 25424, 35828, 26126, 95>>
XlsxPrefix == <<31080, 25454, 26126, 32454, 95>>

\* lines 58-65: the stem of a record's notice document
out_doc_stem(rec) ==
    LET safe_short == sanitize_file_stem(extract_short_name(rec.product_name))
        safe_counterparty ==
            IF rec.counterparty # <<>> THEN sanitize_file_stem(rec.counterparty)
            ELSE <<>>
    IN  IF safe_counterparty # <<>>
        THEN safe_counterparty \o <<95>> \o DocPrefix \o safe_short
        ELSE DocPrefix \o safe_short

\* the records read_charity_records can return: "鼎A集1" and "鼎A集2" with
\* counterparty "C", "B/" with none, each of amount 1.00
LedgerRecords ==
    {[product_name |-> <<40718, 65, 38598, 49>>, counterparty |-> <<67>>, amount |-> 1000],
     [product_name |-> <<40718, 65, 38598, 50>>, counterparty |-> <<67>>, amount |-> 1000],
     [product_name |-> <<66, 47>>, counterparty |-> <<>>, amount |-> 1000]}
\* the records read_holding_records can return: holder "H" of "鼎A集1" with
\* share 1, holder "K" of "鼎A集2" with no share
HoldingRecords ==
    {[product_name |-> <<40718, 65, 38598, 49>>, customer_name |-> <<72>>, share |-> Some(1)],
     [product_name |-> <<40718, 65, 38598, 50>>, customer_name |-> <<75>>, share |-> None]}

\* a file left in an output directory by an earlier run, under the name the
\* products "鼎A集1" and "鼎A集2" give: "C_代捐说明_A", "票据明细_A"
OldFile == [old |-> TRUE]
OldDocDirs == {<<>>, (<<67, 95>> \o DocPrefix \o <<65>>) :> OldFile}
OldXlsxDirs == {<<>>, (XlsxPrefix \o <<65>>) :> OldFile}

\* lines 34-44
NewStats(nc, nh) ==
    [charity_files |-> nc, holding_files |-> nh, charity_rows |-> 0,
     docs_success |-> 0, docs_failed |-> 0, detail_files |-> 0,
     detail_attach_success |-> 0, detail_attach_failed |-> 0,
     holding_records |-> 0]

RunInit ==
    /\ overwrite \in BOOLEAN
    /\ template_exists \in BOOLEAN
    /\ charity_left \in 0..MaxFiles
    /\ holding_left \in 0..MaxFiles
    /\ records = <<>>
    /\ by_product = <<>>
    /\ product_to_amount = <<>>
    /\ product_to_doc = <<>>
    /\ product_to_short = <<>>
    /\ out_doc_dir \in OldDocDirs
    /\ out_xlsx_dir \in OldXlsxDirs
    /\ stats = NewStats(0, 0)
    /\ run_pc = "entry"
    /\ outcome = "running"

RunIdle ==
    /\ overwrite = FALSE
    /\ template_exists = FALSE
    /\ charity_left = 0
    /\ holding_left = 0
    /\ records = <<>>
    /\ by_product = <<>>
    /\ product_to_amount = <<>>
    /\ product_to_doc = <<>>
    /\ product_to_short = <<>>
    /\ out_doc_dir = <<>>
    /\ out_xlsx_dir = <<>>
    /\ stats = NewStats(0, 0)
    /\ run_pc = "idle"
    /\ outcome = "running"

\* an exception leaves run
Raise(exc) ==
    /\ outcome' = exc
    /\ run_pc' = "raised"

\* lines 26-27
RaiseTemplateMissing ==
    /\ run_pc = "entry"
    /\ ~template_exists
    /\ Raise("FileNotFoundError")
    /\ UNCHANGED <<overwrite, template_exists, charity_left, holding_left,
                   records, by_product, product_to_amount, product_to_doc,
                   product_to_short, out_doc_dir, out_xlsx_dir, stats, not_run>>

\* lines 20-44: the files are counted and the dictionaries are empty
Start ==
    /\ run_pc = "entry"
    /\ template_exists
    /\ stats' = NewStats(charity_left, holding_left)
    /\ run_pc' = "ledger"
    /\ UNCHANGED <<overwrite, template_exists, charity_left, holding_left,
                   records, by_product, product_to_amount, product_to_doc,
                   product_to_short, out_doc_dir, out_xlsx_dir, outcome, not_run>>

\* lines 47-49: the next ledger file is read
ReadCharityFile ==
    /\ run_pc = "ledger"
    /\ charity_left > 0
    /\ \E recs \in SeqsUpTo(LedgerRecords, MaxRecords) :
          /\ records' = recs
          /\ stats' = [stats EXCEPT !.charity_rows = @ + Len(recs)]
    /\ charity_left' = charity_left - 1
    /\ run_pc' = "ledger_rec"
    /\ UNCHANGED <<overwrite, template_exists, holding_left, by_product,
                   product_to_amount, product_to_doc, product_to_short,
                   out_doc_dir, out_xlsx_dir, outcome, not_run>>

\* line 48: read_charity_records raises (excel_reader lines 86-87, 91-92)
RaiseCharityRead ==
    /\ run_pc = "ledger"
    /\ charity_left > 0
    /\ Raise("ValueError")
    /\ UNCHANGED <<overwrite, template_exists, charity_left, holding_left,
                   records, by_product, product_to_amount, product_to_doc,
                   product_to_short, out_doc_dir, out_xlsx_dir, stats, not_run>>

\* the repeated record is skipped in place of raising
RaiseDuplicateProductSkip ==
    /\ run_pc = "ledger_rec"
    /\ records # <<>>
    /\ Head(records).product_name \in DOMAIN product_to_amount
    /\ records' = Tail(records)
    /\ UNCHANGED <<overwrite, template_exists, charity_left, holding_left,
                   by_product, product_to_amount, product_to_doc,
                   product_to_short, out_doc_dir, out_xlsx_dir, stats, run_pc,
                   outcome, not_run>>

\* lines 55-56
RaiseDuplicateProduct ==
    /\ run_pc = "ledger_rec"
    /\ records # <<>>
    /\ Head(records).product_name \in DOMAIN product_to_amount
    /\ Raise("DuplicateProductError")
    /\ UNCHANGED <<overwrite, template_exists, charity_left, holding_left,
                   records, by_product, product_to_amount, product_to_doc,
                   product_to_short, out_doc_dir, out_xlsx_dir, stats, not_run>>

\* lines 58-82 when the template renders: the document is written and the
\* product is entered in the three dictionaries
RenderDocument ==
    /\ run_pc = "ledger_rec"
    /\ records # <<>>
    /\ LET rec == Head(records)
           out_doc_path == build_nonconflict_path(out_doc_dir, out_doc_stem(rec), overwrite)
       IN  /\ rec.product_name \notin DOMAIN product_to_amount
           /\ out_doc_dir' = Put(out_doc_dir, out_doc_path,
                  [product_name |-> rec.product_name,
                   counterparty |-> rec.counterparty,
                   amount |-> quantize_2(rec.amount, 1),
                   tables |-> <<>>])
           /\ product_to_amount' = Put(product_to_amount, rec.product_name, rec.amount)
           /\ product_to_doc' = Put(product_to_doc, rec.product_name, out_doc_path)
           /\ product_to_short' = Put(product_to_short, rec.product_name,
                                      extract_short_name(rec.product_name))
    /\ stats' = [stats EXCEPT !.docs_success = @ + 1]
    /\ records' = Tail(records)
    /\ UNCHANGED <<overwrite, template_exists, charity_left, holding_left,
                   by_product, out_xlsx_dir, run_pc, outcome, not_run>>

\* lines 73-78 when render_docx_from_template raises
RaiseRenderFailed ==
    /\ run_pc = "ledger_rec"
    /\ records # <<>>
    /\ Head(records).product_name \notin DOMAIN product_to_amount
    /\ stats' = [stats EXCEPT !.docs_failed = @ + 1]
    /\ Raise("Exception")
    /\ UNCHANGED <<overwrite, template_exists, charity_left, holding_left,
                   records, by_product, product_to_amount, product_to_doc,
                   product_to_short, out_doc_dir, out_xlsx_dir, not_run>>

\* line 50: the records of the file are exhausted
EndCharityFile ==
    /\ run_pc = "ledger_rec"
    /\ records = <<>>
    /\ run_pc' = "ledger"
    /\ UNCHANGED <<overwrite, template_exists, charity_left, holding_left,
                   records, by_product, product_to_amount, product_to_doc,
                   product_to_short, out_doc_dir, out_xlsx_dir, stats, outcome,
                   not_run>>

\* lines 84-98: every ledger file has been processed
EnterHolding ==
    /\ run_pc = "ledger"
    /\ charity_left = 0
    /\ run_pc' = "holding"
    /\ UNCHANGED <<overwrite, template_exists, charity_left, holding_left,
                   records, by_product, product_to_amount, product_to_doc,
                   product_to_short, out_doc_dir, out_xlsx_dir, stats, outcome,
                   not_run>>

\* lines 106-108: the rows of each product, products in order of first
\* appearance
RECURSIVE GroupByProduct(_, _)
GroupByProduct(recs, acc) ==
    IF recs = <<>> THEN acc
    ELSE LET r == Head(recs)
             hit == {i \in 1..Len(acc) : acc[i].product_name = r.product_name}
         IN  GroupByProduct(Tail(recs),
                 IF hit = {}
                 THEN Append(acc, [product_name |-> r.product_name, rows |-> <<r>>])
                 ELSE [acc EXCEPT ![MinOf(hit)].rows = Append(@, r)])

\* lines 100-108: the next holding file is read and grouped
ReadHoldingFile ==
    /\ run_pc = "holding"
    /\ holding_left > 0
    /\ by_product = <<>>
    /\ \E recs \in SeqsUpTo(HoldingRecords, MaxRecords) :
          /\ records' = recs
          /\ stats' = [stats EXCEPT !.holding_records = @ + Len(recs)]
          /\ by_product' = GroupByProduct(recs, <<>>)
    /\ holding_left' = holding_left - 1
    /\ UNCHANGED <<overwrite, template_exists, charity_left, product_to_amount,
                   product_to_doc, product_to_short, out_doc_dir, out_xlsx_dir,
                   run_pc, outcome, not_run>>

\* line 101: read_holding_records raises
RaiseHoldingRead ==
    /\ run_pc = "holding"
    /\ holding_left > 0
    /\ by_product = <<>>
    /\ Raise("ValueError")
    /\ UNCHANGED <<overwrite, template_exists, charity_left, holding_left,
                   records, by_product, product_to_amount, product_to_doc,
                   product_to_short, out_doc_dir, out_xlsx_dir, stats, not_run>>

\* the literal "合计"
Total == <<21512, 35745>>

\* lines 119-124: one row per holder, then the row of the total
DetailData(rows, allocated_) ==
    [i \in 1..Len(rows) |-> <<rows[i].customer_name, quantize_2(allocated_[i], 1)>>]
        \o <<<<Total, quantize_2(SumSeq(allocated_), 1)>>>>

\* lines 110-149: one product of the file is allocated, its detail
\* spreadsheet is written and its table is inserted in its document
WriteDetail ==
    /\ run_pc = "holding"
    /\ by_product # <<>>
    /\ LET product_name == Head(by_product).product_name
           rows == Head(by_product).rows
           amount == IF product_name \in DOMAIN product_to_amount
                     THEN product_to_amount[product_name] ELSE 0
           shares_ == [i \in 1..Len(rows) |-> Some(OrZero(rows[i].share))]
           data == DetailData(rows, allocate_proportional(Some(amount), shares_))
           short_name == IF product_name \in DOMAIN product_to_short
                         THEN product_to_short[product_name] ELSE product_name
           out_xlsx_path == build_nonconflict_path(out_xlsx_dir,
                                XlsxPrefix \o sanitize_file_stem(short_name), overwrite)
       IN  /\ out_xlsx_dir' = Put(out_xlsx_dir, out_xlsx_path,
                                  [product_name |-> product_name, data |-> data])
           /\ IF product_name \notin DOMAIN product_to_doc
              THEN /\ stats' = [stats EXCEPT !.detail_files = @ + 1,
                                             !.detail_attach_failed = @ + 1]
                   /\ UNCHANGED out_doc_dir
              ELSE /\ stats' = [stats EXCEPT !.detail_files = @ + 1,
                                             !.detail_attach_success = @ + 1]
                   /\ out_doc_dir' =
                          [out_doc_dir EXCEPT ![product_to_doc[product_name]].tables =
                              Append(@, data)]
    /\ by_product' = Tail(by_product)
    /\ UNCHANGED <<overwrite, template_exists, charity_left, holding_left,
                   records, product_to_amount, product_to_doc, product_to_short,
                   run_pc, outcome, not_run>>

\* line 151
Return ==
    /\ run_pc = "holding"
    /\ holding_left = 0
    /\ by_product = <<>>
    /\ outcome' = "ok"
    /\ run_pc' = "returned"
    /\ UNCHANGED <<overwrite, template_exists, charity_left, holding_left,
                   records, by_product, product_to_amount, product_to_doc,
                   product_to_short, out_doc_dir, out_xlsx_dir, stats, not_run>>

\* main.py lines 21-48: the exit status for each way run can end
main(result) ==
    CASE result = "ok" -> 0
      [] result = "FileNotFoundError" -> 2
      [] result = "DuplicateProductError" -> 3
      [] OTHER -> 1

----------------------------------------------------------------------------
(* excel_reader.read_charity_records, and format_amount on its records *)

\* A data row holds the raw cells under the three mapped columns; a cell is
\* a raw value as to_decimal takes it.  pd.read_excel gives the float nan
\* for an empty cell.
EmptyCell == <<"float", <<110, 97, 110>>>>

\* str(value) of a cell
CellStr(value) == IF value[1] = "int" THEN IntStr(value[2]) ELSE value[2]

\* product cells drawn: empty, "A", " A ", a blank text
ProductCells ==
    {EmptyCell, <<"text", <<65>>>>, <<"text", <<32, 65, 32>>>>, <<"text", <<32>>>>}
\* counterparty cells drawn: empty, "C"
CounterpartyCells == {EmptyCell, <<"text", <<67>>>>}
\* amount cells drawn: empty, 5, 1.5, "(1)", "-", a blank text, "nan",
\* "Infinity"
AmountCells ==
    {EmptyCell, <<"int", 5>>, <<"float", <<49, 46, 53>>>>,
     <<"text", <<40, 49, 41>>>>, <<"text", <<45>>>>, <<"text", <<32>>>>,
     <<"text", <<110, 97, 110>>>>,
     <<"text", <<73, 110, 102, 105, 110, 105, 116, 121>>>>}

DataRows ==
    {[product_name |-> p, counterparty |-> c, amount |-> a] :
        p \in ProductCells, c \in CounterpartyCells, a \in AmountCells}

ReadInit ==
    /\ df \in SeqsUpTo(DataRows, MaxDataRows)
    /\ row_i = 0
    /\ read_records = <<>>
    /\ formatted = <<>>
    /\ read_pc = "rows"

ReadIdle ==
    /\ df = <<>>
    /\ row_i = 0
    /\ read_records = <<>>
    /\ formatted = <<>>
    /\ read_pc = "idle"

\* excel_reader lines 102-104: the three values taken from a row
RowProduct(row) == normalize_whitespace(Strip(CellStr(row.product_name)))
RowCounterparty(row) == normalize_whitespace(Strip(CellStr(row.counterparty)))
RowAmount(row) == to_decimal(row.amount)

\* line 106: `not product or amount is None`
RowSkipped(row) == RowProduct(row) = <<>> \/ RowAmount(row)[2] = None

\* lines 101-114 for a row that is kept
KeepRow ==
    /\ read_pc = "rows"
    /\ row_i < Len(df)
    /\ RowAmount(df[row_i + 1])[1] = "return"
    /\ ~RowSkipped(df[row_i + 1])
    /\ read_records' = Append(read_records,
            [product_name |-> RowProduct(df[row_i + 1]),
             counterparty |-> RowCounterparty(df[row_i + 1]),
             amount |-> RowAmount(df[row_i + 1])[2][1]])
    /\ row_i' = row_i + 1
    /\ UNCHANGED <<df, formatted, read_pc, not_read>>

\* lines 101-107 for a row that is dropped
SkipRow ==
    /\ read_pc = "rows"
    /\ row_i < Len(df)
    /\ RowAmount(df[row_i + 1])[1] = "return"
    /\ RowSkipped(df[row_i + 1])
    /\ row_i' = row_i + 1
    /\ UNCHANGED <<df, read_records, formatted, read_pc, not_read>>

\* lines 115-116
ReturnRecords ==
    /\ read_pc = "rows"
    /\ row_i = Len(df)
    /\ read_pc' = "returned"
    /\ UNCHANGED <<df, row_i, read_records, formatted, not_read>>

RECURSIVE Pow10(_)
Pow10(n) == IF n = 0 THEN 1 ELSE 10 * Pow10(n - 1)

\* text_utils lines 90-93 on a Decimal: a finite value is quantized (the
\* result is given in mills), a quiet NaN passes through quantize and prints
\* as "NaN", an infinity or a signalling NaN makes quantize raise
format_amount(d) ==
    IF d[1] = "fin"
    THEN LET sgn == IF d[2] THEN -1 ELSE 1
         IN  IF d[4] >= -3
             THEN <<"return", quantize_2(sgn * d[3] * Pow10(d[4] + 3), 1)>>
             ELSE <<"return", quantize_2(sgn * d[3], Pow10(-3 - d[4]))>>
    ELSE IF d[1] = "nan" THEN <<"return", "NaN">>
    ELSE <<"raise", "InvalidOperation">>

\* orchestrator lines 50-72: the next record's amount is formatted
FormatRecord ==
    /\ read_pc = "returned"
    /\ Len(formatted) < Len(read_records)
    /\ LET f == format_amount(read_records[Len(formatted) + 1].amount)
       IN  /\ f[1] = "return"
           /\ formatted' = Append(formatted, f[2])
    /\ UNCHANGED <<df, row_i, read_records, read_pc, not_read>>

\* orchestrator line 71 when format_amount raises: the run ends
RaiseFormat ==
    /\ read_pc = "returned"
    /\ Len(formatted) < Len(read_records)
    /\ format_amount(read_records[Len(formatted) + 1].amount)[1] = "raise"
    /\ read_pc' = "raised"
    /\ UNCHANGED <<df, row_i, read_records, formatted, not_read>>

----------------------------------------------------------------------------
(* Specifications *)

Init == AllocInit /\ QuantIdle /\ CanonIdle /\ DetectIdle /\ DecimalIdle /\ RunIdle /\ ReadIdle
Next ==
    \/ AllocEmpty
    \/ AllocZeroSum
    \/ AllocStart
    \/ AllocPart
    \/ AllocLast
Spec == Init /\ [][Next]_vars

InitQuant == AllocIdle /\ QuantInit /\ CanonIdle /\ DetectIdle /\ DecimalIdle /\ RunIdle /\ ReadIdle
NextQuant == Quantize
SpecQuant == InitQuant /\ [][NextQuant]_vars

InitCanon == AllocIdle /\ QuantIdle /\ CanonInit /\ DetectIdle /\ DecimalIdle /\ RunIdle /\ ReadIdle
NextCanon ==
    \/ CanonOnce
    \/ CanonTwice
SpecCanon == InitCanon /\ [][NextCanon]_vars

InitDetect == AllocIdle /\ QuantIdle /\ CanonIdle /\ DetectInit /\ DecimalIdle /\ RunIdle /\ ReadIdle
NextDetect ==
    \/ TryRow1Accept
    \/ TryRow1Fail
    \/ Scan
    \/ RaiseHeaderNotFound
    \/ RereadAccept
    \/ RaiseColumnsIncomplete
SpecDetect == InitDetect /\ [][NextDetect]_vars

InitDecimal == AllocIdle /\ QuantIdle /\ CanonIdle /\ DetectIdle /\ DecimalInit /\ RunIdle /\ ReadIdle
NextDecimal == ToDecimal
SpecDecimal == InitDecimal /\ [][NextDecimal]_vars

InitRun ==
    /\ AllocIdle /\ QuantIdle /\ CanonIdle /\ DetectIdle /\ DecimalIdle
    /\ RunInit /\ ReadIdle
NextRun ==
    \/ RaiseTemplateMissing
    \/ Start
    \/ ReadCharityFile
    \/ RaiseCharityRead
    \/ RaiseDuplicateProduct
    \/ RenderDocument
    \/ RaiseRenderFailed
    \/ EndCharityFile
    \/ EnterHolding
    \/ ReadHoldingFile
    \/ RaiseHoldingRead
    \/ WriteDetail
    \/ Return
SpecRun == InitRun /\ [][NextRun]_vars

InitRead ==
    /\ AllocIdle /\ QuantIdle /\ CanonIdle /\ DetectIdle /\ DecimalIdle
    /\ RunIdle /\ ReadInit
NextRead ==
    \/ KeepRow
    \/ SkipRow
    \/ ReturnRecords
    \/ FormatRecord
    \/ RaiseFormat
SpecRead == InitRead /\ [][NextRead]_vars

----------------------------------------------------------------------------
(* Properties of allocate_proportional *)

AllocDone == alloc_pc = "done"

\* the elements of s before position n
Front(s, n) == SubSeq(s, 1, n - 1)

\* C1: for every total and every non-empty share list whose shares do not
\* sum to zero, the returned amounts sum exactly to quantize_2(total).
\* (The all-zero list, for which the claim fails as well, is C4's case.)
C1_SumInvariant ==
    (AllocDone /\ shares # <<>> /\ total_shares # 0)
        => SumSeq(allocated) = quantize_2(TotalOrZero, 1)

\* C2: with a non-zero share sum the result is as long as the share list,
\* every element but the last is the quantized proportional part, the last
\* is the quantized remainder, and 100.00 over [1,1,1] gives
\* [33.33, 33.33, 33.34].
C2_RemainderPlacement ==
    (AllocDone /\ shares # <<>> /\ total_shares # 0) =>
        LET n == Len(shares) IN
        /\ Len(allocated) = n
        /\ \A i \in 1..(n - 1) :
              allocated[i] = quantize_2(TotalOrZero * OrZero(shares[i]), total_shares)
        /\ allocated[n] = quantize_2(TotalOrZero - SumSeq(Front(allocated, n)), 1)
        /\ (total_amount = Some(100000) /\ shares = <<Some(1), Some(1), Some(1)>>)
              => allocated = <<33330, 33330, 33340>>

C2_Witness ==
    /\ AllocDone
    /\ total_amount = Some(100000)
    /\ shares = <<Some(1), Some(1), Some(1)>>
    /\ allocated = <<33330, 33330, 33340>>

\* C3 as stated: for every one-element share list the result is
\* [quantize_2(total)], whatever the share.
C3_SingleShareAnyShare ==
    (AllocDone /\ Len(shares) = 1) => allocated = <<quantize_2(TotalOrZero, 1)>>

\* C3 amended: for a one-element share list whose share is neither null nor
\* zero the result is [quantize_2(total)]; 100.00 over [5] gives [100.00].
C3_SingleNonZeroShare ==
    (AllocDone /\ Len(shares) = 1 /\ OrZero(shares[1]) # 0) =>
        /\ allocated = <<quantize_2(TotalOrZero, 1)>>
        /\ TotalOrZero % 10 = 0 => allocated = <<TotalOrZero>>

C3_Witness ==
    /\ AllocDone
    /\ total_amount = Some(100000)
    /\ shares = <<Some(5)>>
    /\ allocated = <<100000>>

\* C4: an empty share list gives the empty list, and a non-empty list whose
\* shares (null as zero) sum to zero gives 0.00 for every share, for any
\* total including a null one; both calls return.
C4_ZeroSumAndEmpty ==
    /\ (alloc_pc = "entry" /\ (shares = <<>> \/ total_shares = 0))
          => ENABLED (AllocEmpty \/ AllocZeroSum)
    /\ (AllocDone /\ shares = <<>>) => allocated = <<>>
    /\ (AllocDone /\ shares # <<>> /\ total_shares = 0) =>
          /\ Len(allocated) = Len(shares)
          /\ \A i \in 1..Len(allocated) : allocated[i] = 0

C4_Witness ==
    /\ AllocDone
    /\ total_amount = None
    /\ shares = <<Some(1), None, Some(-1)>>
    /\ allocated = <<0, 0, 0>>

----------------------------------------------------------------------------
(* Properties of quantize_2 *)

\* C5: quantize_2 returns a value of two fractional digits nearest to its
\* argument, a tie going away from zero for both signs (0.005 -> 0.01,
\* -0.005 -> -0.01, 0.015 -> 0.02), and a value that already has at most
\* two fractional digits is returned numerically unchanged.
C5_RoundHalfAwayFromZero ==
    q_pc = "done" =>
        LET r == q_out[1]
            err2 == 2 * Abs(r * q_den - q_num)
        IN  /\ r % 10 = 0
            /\ err2 <= 10 * q_den
            /\ err2 = 10 * q_den => Abs(r) * q_den > Abs(q_num)
            /\ q_num % (10 * q_den) = 0 => r * q_den = q_num
            /\ (q_num = 5 /\ q_den = 1) => r = 10
            /\ (q_num = -5 /\ q_den = 1) => r = -10
            /\ (q_num = 15 /\ q_den = 1) => r = 20

C5_Witness ==
    /\ q_pc = "done"
    /\ q_num = -5
    /\ q_den = 1
    /\ q_out = Some(-10)

----------------------------------------------------------------------------
(* Properties of canonicalize_header *)

IsParen(c) == c \in {40, 41, 65288, 65289}
IsFullWidth(c) == 65281 <= c /\ c <= 65374
IsUpper(c) == (65 <= c /\ c <= 90) \/ (65313 <= c /\ c <= 65338)

\* C6: canonicalizing a canonical form returns it unchanged, and a canonical
\* form holds no whitespace, no parenthesis of either width, no full-width
\* ASCII-range character and no upper-case letter.
C6_CanonicalizeIdempotent ==
    /\ c_pc = "twice" => c_twice = c_once
    /\ c_pc \in {"once", "twice"} =>
          \A i \in 1..Len(c_once) :
              /\ ~IsSpace(c_once[i])
              /\ ~IsParen(c_once[i])
              /\ ~IsFullWidth(c_once[i])
              /\ ~IsUpper(c_once[i])

\* full-width "A", full-width "(", U+3000 canonicalize to "a"
C6_Witness ==
    /\ c_pc = "twice"
    /\ c_in = <<65313, 65288, 12288>>
    /\ c_once = <<97>>
    /\ c_twice = <<97>>

----------------------------------------------------------------------------
(* Properties of _detect_header_and_read *)

\* every label of the sheets and schemas, with its canonical form
Labels ==
    UNION {UNION {req[f] : f \in DOMAIN req} : req \in Schemas}
    \cup UNION {{AsStr(row[i]) : i \in 1..Len(row)} : row \in RowPool}
    \cup UNION {{Columns(row)[i] : i \in 1..Len(row)} : row \in RowPool}

CanonTable == {<<l, canonicalize_header(l)>> : l \in Labels}
CanonForm(l) == (CHOOSE p \in CanonTable : p[1] = l)[2]

\* label l is, up to canonical form, one of the synonyms of field f of req
IsSynonym(l, f, req) == \E c \in req[f] : CanonForm(c) = CanonForm(l)

\* the fields of req with a synonym among the cells of a row, and whether
\* the row read as a header has a column for every field; computed once
\* for every row and schema
FieldsTable ==
    {<<row, req, {f \in DOMAIN req :
                    \E i \in 1..Len(row) : IsSynonym(AsStr(row[i]), f, req)}>> :
        row \in RowPool, req \in Schemas}
CompleteTable ==
    {<<row, req, \A f \in DOMAIN req :
                    \E i \in 1..Len(row) : IsSynonym(Columns(row)[i], f, req)>> :
        row \in RowPool, req \in Schemas}

\* fields of the schema with a synonym among the cells of row r (0-based)
FieldsInRow(r) ==
    (CHOOSE p \in FieldsTable : p[1] = sheet[r + 1] /\ p[2] = required)[3]
Score(r) == Cardinality(FieldsInRow(r))
NumFields == Cardinality(DOMAIN required)

\* row r (0-based), read as a header, has a column for every field
CompleteHeader(r) ==
    /\ r < Len(sheet)
    /\ (CHOOSE p \in CompleteTable : p[1] = sheet[r + 1] /\ p[2] = required)[3]

\* rows the fallback scan looks at, and the lowest row of maximum score
Scanned == 0..(Min(6, Len(sheet)) - 1)
Winner ==
    CHOOSE b \in Scanned :
        \A r \in Scanned : Score(r) <= Score(b) /\ (r < b => Score(r) < Score(b))

DetectFinal == h_pc \in {"ok", "err_header", "err_columns"}
ViaScan == best_row # None

\* C7: on success the mapping has exactly the schema's fields as keys, each
\* mapped to a column of the chosen header row whose canonical label is the
\* canonical form of a synonym of that field; and a row with a column for
\* every field among those examined always gives success, whatever other
\* columns the sheet has.
C7_MappingGuarantee ==
    /\ h_pc = "ok" =>
          /\ mapping # None
          /\ DOMAIN mapping[1] = DOMAIN required
          /\ header_row \in 0..(Len(sheet) - 1)
          /\ \A f \in DOMAIN required :
                /\ \E i \in 1..Len(sheet[header_row + 1]) :
                      Columns(sheet[header_row + 1])[i] = mapping[1][f]
                /\ IsSynonym(mapping[1][f], f, required)
    /\ (DetectFinal /\ (CompleteHeader(1) \/ \E r \in Scanned : CompleteHeader(r)))
          => h_pc = "ok"

\* row 1 is the ledger header with an extra column; the amount is found
\* under its noisy label
C7_Witness ==
    /\ h_pc = "ok"
    /\ required = CHARITY_REQUIRED
    /\ Len(sheet) = 3
    /\ sheet[2] = RowCharity
    /\ header_row = 1
    /\ mapping[1].amount = <<25424, 36192, 65288, 37329, 32, 39069, 65289, 10>>
    /\ mapping[1].product_name = <<20135, 21697>>

\* C8: once row 1 has been rejected, the scan looks at the first
\* min(6, rows) rows only, a row's score is the number of fields with a
\* synonym in it, and the header used is the lowest row of maximum score;
\* three empty rows then a complete header give row 3, and a complete header
\* on row 6 is not seen.
C8_FallbackScan ==
    /\ h_pc \in {"scanned", "err_header", "err_columns"} \/ (h_pc = "ok" /\ ViaScan) =>
          /\ ~CompleteHeader(1)
          /\ (best_row = None) = (Scanned = {})
          /\ best_row # None =>
                /\ best_row[1] = Winner
                /\ best_score = Score(Winner)
          /\ h_pc \in {"ok", "err_columns"} => header_row = best_row[1]
    /\ ( /\ DetectFinal
         /\ Len(sheet) >= 4
         /\ \A r \in 0..2 : sheet[r + 1] = RowBlank
         /\ CompleteHeader(3) )
          => (h_pc = "ok" /\ header_row = 3)
    /\ ( /\ DetectFinal
         /\ Len(sheet) = 7
         /\ \A r \in 0..5 : sheet[r + 1] = RowBlank
         /\ CompleteHeader(6) )
          => h_pc = "err_header"

C8_Witness ==
    /\ h_pc = "ok"
    /\ required = HOLDING_REQUIRED
    /\ Len(sheet) = 6
    /\ \A r \in 0..2 : sheet[r + 1] = RowBlank
    /\ sheet[4] = RowHolding
    /\ sheet[6] = RowHolding
    /\ best_row = Some(3)
    /\ header_row = 3

\* C9: the call ends with the header-not-found error exactly when row 1 is
\* not a complete header and no scanned row matches any field (or there is
\* no row), with the columns-incomplete error exactly when row 1 is not a
\* complete header and the winning row matches some but not all fields, and
\* with success otherwise; a returned mapping lacks no field.
C9_ErrorOutcomes ==
    /\ h_pc \in {"step1", "scan", "scanned"} => ENABLED NextDetect
    /\ DetectFinal =>
          /\ (h_pc = "err_header") =
                (~CompleteHeader(1) /\ \A r \in Scanned : Score(r) = 0)
          /\ (h_pc = "err_columns") =
                ( /\ ~CompleteHeader(1)
                  /\ Scanned # {}
                  /\ Score(Winner) >= 1
                  /\ Score(Winner) < NumFields )
          /\ h_pc = "ok" => (mapping # None /\ DOMAIN mapping[1] = DOMAIN required)
          /\ h_pc # "ok" => mapping = None

C9_Witness ==
    /\ h_pc = "err_columns"
    /\ required = CHARITY_REQUIRED
    /\ Len(sheet) = 2
    /\ sheet[1] = RowPartial
    /\ sheet[2] = RowBlank
    /\ header_row = 0

----------------------------------------------------------------------------
(* Properties of to_decimal *)

DecimalDone == d_pc = "done"
IsText == d_in[1] = "text"
Returned(v) == d_out = <<"return", v>>

\* C10: to_decimal never raises; it returns none for null, for empty or
\* blank text and for the tokens nan/none/null in any letter case; whatever
\* else it returns is an exact decimal number (text that is no decimal
\* number gives none); an integer or Decimal argument is returned exactly;
\* "(X)" gives -X, thousands commas and the currency marker are ignored,
\* "(1,234.50)" gives -1234.50 and "1,234.50" with the marker 1234.50.
C10_ToDecimal ==
    DecimalDone =>
        /\ d_out[1] = "return"
        /\ d_in[1] = "null" => Returned(None)
        /\ (IsText /\ Strip(d_in[2]) = <<>>) => Returned(None)
        /\ (IsText /\ Lower(Strip(d_in[2])) \in NullTokens) => Returned(None)
        /\ (d_out[1] = "return" /\ d_out[2] # None) => d_out[2][1][1] = "fin"
        /\ d_in[1] = "int" => Returned(Some(Fin(d_in[2] < 0, Abs(d_in[2]), 0)))
        /\ d_in[1] = "Decimal" => Returned(Some(d_in[2]))
        /\ \A n \in 0..MaxInt :
              /\ (IsText /\ d_in[2] = <<40>> \o NatStr(n) \o <<41>>)
                    => Returned(Some(Fin(TRUE, n, 0)))
              /\ (IsText /\ d_in[2] \in {NatStr(n) \o <<20803>>, <<44>> \o NatStr(n)})
                    => Returned(Some(Fin(FALSE, n, 0)))
        /\ (IsText /\ d_in[2] = <<40, 49, 44, 50, 51, 52, 46, 53, 48, 41>>)
              => Returned(Some(Fin(TRUE, 123450, -2)))
        /\ (IsText /\ d_in[2] = <<49, 44, 50, 51, 52, 46, 53, 48, 20803>>)
              => Returned(Some(Fin(FALSE, 123450, -2)))

----------------------------------------------------------------------------
(* Properties of orchestrator.run *)

\* the record in hand repeats a product already entered from the ledger
DuplicateInHand ==
    /\ run_pc = "ledger_rec"
    /\ records # <<>>
    /\ Head(records).product_name \in DOMAIN product_to_amount

\* files written by this run
NewFiles(dir) == {f \in DOMAIN dir : dir[f] # OldFile}

\* an allocation, a detail spreadsheet or a table insertion has happened, or
\* a holding file has been read
HoldingTouched ==
    \/ run_pc \in {"holding", "returned"}
    \/ by_product # <<>>
    \/ stats.holding_records > 0
    \/ stats.detail_files > 0
    \/ stats.detail_attach_success > 0
    \/ stats.detail_attach_failed > 0
    \/ NewFiles(out_xlsx_dir) # {}
    \/ \E f \in NewFiles(out_doc_dir) : out_doc_dir[f].tables # <<>>

\* C11: when the ledger loop reaches a record whose product name was already
\* entered (from the same file or an earlier one), the step it takes raises
\* DuplicateProductError (exit status 3); a run that raised it has read no
\* holding file, allocated nothing, written no detail spreadsheet and
\* inserted no table; and the holding phase is only ever entered with every
\* ledger file read and all the ledger records read bearing distinct names.
C11_DuplicateProduct ==
    /\ [][DuplicateInHand =>
            /\ outcome' = "DuplicateProductError"
            /\ main(outcome') = 3
            /\ ~HoldingTouched']_vars
    /\ [](outcome = "DuplicateProductError" => ~HoldingTouched)
    /\ [](HoldingTouched =>
            /\ charity_left = 0
            /\ stats.charity_rows = Cardinality(DOMAIN product_to_amount))

\* the second file's only record repeats the product of the first file's
\* only record, with holding files waiting to be read
C11_Witness ==
    /\ outcome = "DuplicateProductError"
    /\ stats.charity_files = 2
    /\ charity_left = 0
    /\ stats.charity_rows = 2
    /\ Len(records) = 1
    /\ stats.docs_success = 1
    /\ holding_left = 2
    /\ ~HoldingTouched

\* the notice documents and the detail spreadsheets this run left for p
DocsOf(p) ==
    {f \in NewFiles(out_doc_dir) : out_doc_dir[f].product_name = p}
XlsxOf(p) ==
    {f \in NewFiles(out_xlsx_dir) : out_xlsx_dir[f].product_name = p}

\* C12: a run called as main calls it (overwrite off) that returns leaves,
\* for every product of the ledger, exactly one notice document, at most one
\* detail spreadsheet (one, when a holding file names the product) and as
\* many tables inserted in the product's document as it has spreadsheets,
\* whatever the number of ledger and holding files.
C12_OutputsPerProduct ==
    (outcome = "ok" /\ ~overwrite) =>
        \A p \in DOMAIN product_to_amount :
            /\ Cardinality(DocsOf(p)) = 1
            /\ DocsOf(p) = {product_to_doc[p]}
            /\ Cardinality(XlsxOf(p)) <= 1
            /\ Len(out_doc_dir[product_to_doc[p]].tables) = Cardinality(XlsxOf(p))

----------------------------------------------------------------------------
(* Properties of read_charity_records *)

\* a cell with nothing in it: empty in the sheet, or blank text
IsEmptyCell(cell) == cell = EmptyCell \/ (cell[1] = "text" /\ Strip(cell[2]) = <<>>)

\* the amount cell holds a decimal number
Convertible(cell) ==
    /\ ~IsEmptyCell(cell)
    /\ to_decimal(cell)[1] = "return"
    /\ to_decimal(cell)[2] # None
    /\ to_decimal(cell)[2][1][1] = "fin"

\* the rows the claim keeps
RowWanted(row) == ~IsEmptyCell(row.product_name) /\ Convertible(row.amount)

\* C13: every record returned has a non-empty product name and an amount
\* that is a decimal number; the rows read so far whose product cell is
\* empty, or whose amount cell is empty or no decimal number, have been
\* dropped and the others kept; and neither the read nor the formatting of
\* the records ends in an exception.
C13_RowFiltering ==
    /\ \A i \in 1..Len(read_records) :
          /\ read_records[i].product_name # <<>>
          /\ read_records[i].amount[1] = "fin"
    /\ Len(read_records) = Cardinality({i \in 1..row_i : RowWanted(df[i])})
    /\ read_pc # "raised"

----------------------------------------------------------------------------
(* Sign of the amounts allocate_proportional returns *)

\* C14: for a total of whole cents that is not negative and shares that are
\* none negative (null counted as zero) and sum to more than zero, every
\* amount returned is at least 0.00, and a holder whose share is zero or
\* null gets exactly 0.00, the last holder included.
C14_NonNegative ==
    (/\ AllocDone
     /\ TotalOrZero >= 0
     /\ TotalOrZero % 10 = 0
     /\ \A i \in 1..Len(shares) : OrZero(shares[i]) >= 0
     /\ total_shares > 0) =>
        \A i \in 1..Len(allocated) :
            /\ allocated[i] >= 0
            /\ OrZero(shares[i]) = 0 => allocated[i] = 0

====
